---------------------------- MODULE Spec2Model ----------------------------
(***************************************************************************)
(* Shared USB for the RP2040 (cores/rp2040/RP2040USB.cpp, RP2040USB.h).    *)
(*                                                                         *)
(* The module models                                                       *)
(*   - the role flags (the weak __USBInstall* symbols),                    *)
(*   - the HID report / raw-HID-2 report / configuration descriptor        *)
(*     builders and the buffers they leave behind,                         *)
(*   - the HID instance getters and the report-descriptor callback,        *)
(*   - __USBStart, the recurring alarm, the user IRQ usb_irq and two       *)
(*     application cores that drive tud_task under __usb_mutex,            *)
(*   - the SET_REPORT callback router.                                     *)
(*                                                                         *)
(* Bytes are naturals 0..255, a buffer is a sequence of bytes, a pointer   *)
(* is the number of the allocation it came from and NULL is 0.             *)
(***************************************************************************)
EXTENDS Integers, Sequences, FiniteSets, TLC

(***************************************************************************)
(* Bounds of the model (not program constants).                            *)
(***************************************************************************)
\* Heap blocks the direct builder calls of SpecDesc may allocate in one run.
MaxAllocs == 3
\* Distinct handler functions an application may register (addresses 1..n).
MaxHandlers == 2
\* SET_REPORT events draw instance, report id and size from 0..MaxArg.
MaxArg == 1
\* Calls of __USBSubscribeHIDSetReportCallback in one run.
MaxSubscribe == 3

(***************************************************************************)
(* Program constants.                                                      *)
(***************************************************************************)
NULL == 0
\* A byte of a malloc'ed block that nothing has written yet.
UNINIT == -1

USB_TASK_INTERVAL == 1000

USBD_STR_0 == 0
USBD_STR_CDC == 4
USBD_CDC_EP_CMD == 129
USBD_CDC_EP_OUT == 2
USBD_CDC_EP_IN == 130
USBD_CDC_CMD_MAX_SIZE == 8
USBD_CDC_IN_OUT_MAX_SIZE == 64
EPNUM_HID == 131
USBD_MSC_EPOUT == 3
USBD_MSC_EPIN == 132
USBD_MSC_EPSIZE == 64
EPNUM_HID2_EPOUT == 5
EPNUM_HID2_EPIN == 133
\* tusb_config.h / board definitions, used at the lines named in RESULTS.json
CFG_TUD_HID_EP_BUFSIZE == 64
USBD_MAX_POWER_MA == 250
HID_ITF_PROTOCOL_NONE == 0
TUSB_DESC_CONFIG_ATT_REMOTE_WAKEUP == 32

Report_Type_Keyboard == 0
Report_Type_Mouse == 1
Report_Type_Joystick == 2
Report_Type_ConsumerControl == 3

\* capacity of __hid_set_report_callback_functions
CallbackSlots == 2

RoleNames ==
    {"Serial", "Keyboard", "Mouse", "Joystick", "ConsumerControl",
     "MassStorage", "SecondHID_RawHID"}

Cores == {0, 1}

(***************************************************************************)
(* Integer helpers of the C code.                                          *)
(***************************************************************************)
U8(x) == x % 256
U16_LOW(x) == x % 256
U16_HIGH(x) == (x \div 256) % 256

\* memcpy(buf + off, src, Len(src)) into a block of Len(buf) bytes
Memcpy(buf, off, src) ==
    [i \in 1..Len(buf) |->
        IF i > off /\ i <= off + Len(src) THEN src[i - off] ELSE buf[i]]

\* bzero(buf, n)
Bzero(buf, n) == [i \in 1..Len(buf) |-> IF i <= n THEN 0 ELSE buf[i]]

\* a fresh malloc'ed block: size bytes nobody has written
Block(size) == [i \in 1..size |-> UNINIT]

(***************************************************************************)
(* TinyUSB descriptor macros, expanded to bytes.                           *)
(* HID_REPORT_ID(id) is the global item 0x85, id.  The keyboard, mouse     *)
(* and gamepad report templates keep their framing (usage page, usage,     *)
(* application collection, report id, end collection) and a shortened      *)
(* item list: the builder only copies them and takes their sizeof.         *)
(***************************************************************************)
HID_REPORT_ID(id) == <<133, U8(id)>>

TUD_HID_REPORT_DESC_KEYBOARD(id) ==
    <<5, 1, 9, 6, 161, 1>> \o HID_REPORT_ID(id) \o
    <<5, 7, 25, 224, 41, 231, 21, 0, 37, 1, 149, 8, 117, 1, 129, 2,
      149, 1, 117, 8, 129, 1, 192>>

TUD_HID_REPORT_DESC_MOUSE(id) ==
    <<5, 1, 9, 2, 161, 1>> \o HID_REPORT_ID(id) \o
    <<9, 1, 161, 0, 5, 9, 25, 1, 41, 5, 149, 5, 117, 1, 129, 2, 192, 192>>

TUD_HID_REPORT_DESC_GAMEPAD(id) ==
    <<5, 1, 9, 5, 161, 1>> \o HID_REPORT_ID(id) \o
    <<5, 1, 9, 48, 9, 49, 21, 129, 37, 127, 149, 2, 117, 8, 129, 2,
      5, 9, 25, 1, 41, 16, 21, 0, 37, 1, 149, 16, 117, 1, 129, 2, 192>>

TUD_HID_REPORT_DESC_CONSUMER(id) ==
    <<5, 12, 9, 1, 161, 1>> \o HID_REPORT_ID(id) \o
    <<21, 0, 38, 255, 3, 25, 0, 42, 255, 3, 149, 1, 117, 16, 129, 0, 192>>

TUD_HID_REPORT_DESC_GENERIC_INOUT(n) ==
    <<6, 0, 255, 9, 1, 161, 1,
      9, 2, 21, 0, 38, 255, 0, 117, 8, 149, U8(n), 129, 2,
      9, 3, 21, 0, 38, 255, 0, 117, 8, 149, U8(n), 145, 2, 192>>

TUD_CONFIG_DESC_LEN == 9
TUD_CDC_DESC_LEN == 66
TUD_HID_DESC_LEN == 25
TUD_MSC_DESC_LEN == 23
TUD_HID_INOUT_DESC_LEN == 32

TUD_CONFIG_DESCRIPTOR(config_num, itfcount, stridx, total_len, attribute, power_ma) ==
    <<9, 2, U16_LOW(total_len), U16_HIGH(total_len), U8(itfcount), config_num,
      stridx, U8(128 + attribute), power_ma \div 2>>

TUD_CDC_DESCRIPTOR(itfnum, stridx, ep_notif, ep_notif_size, epout, epin, epsize) ==
    <<8, 11, U8(itfnum), 2, 2, 2, 0, 0>> \o
    <<9, 4, U8(itfnum), 0, 1, 2, 2, 0, stridx>> \o
    <<5, 36, 0, 32, 1>> \o
    <<5, 36, 1, 0, U8(itfnum + 1)>> \o
    <<4, 36, 2, 2>> \o
    <<5, 36, 6, U8(itfnum), U8(itfnum + 1)>> \o
    <<7, 5, ep_notif, 3, U16_LOW(ep_notif_size), U16_HIGH(ep_notif_size), 16>> \o
    <<9, 4, U8(itfnum + 1), 0, 2, 10, 0, 0, 0>> \o
    <<7, 5, epout, 2, U16_LOW(epsize), U16_HIGH(epsize), 0>> \o
    <<7, 5, epin, 2, U16_LOW(epsize), U16_HIGH(epsize), 0>>

TUD_HID_DESCRIPTOR(itfnum, stridx, boot_protocol, report_desc_len, epin, epsize, ep_interval) ==
    <<9, 4, U8(itfnum), 0, 1, 3, IF boot_protocol # 0 THEN 1 ELSE 0, boot_protocol, stridx>> \o
    <<9, 33, 17, 1, 0, 1, 34, U16_LOW(report_desc_len), U16_HIGH(report_desc_len)>> \o
    <<7, 5, epin, 3, U16_LOW(epsize), U16_HIGH(epsize), ep_interval>>

TUD_MSC_DESCRIPTOR(itfnum, stridx, epout, epin, epsize) ==
    <<9, 4, U8(itfnum), 0, 2, 8, 6, 80, stridx>> \o
    <<7, 5, epout, 2, U16_LOW(epsize), U16_HIGH(epsize), 0>> \o
    <<7, 5, epin, 2, U16_LOW(epsize), U16_HIGH(epsize), 0>>

TUD_HID_INOUT_DESCRIPTOR(itfnum, stridx, boot_protocol, report_desc_len, epout, epin, epsize, ep_interval) ==
    <<9, 4, U8(itfnum), 0, 2, 3, IF boot_protocol # 0 THEN 1 ELSE 0, boot_protocol, stridx>> \o
    <<9, 33, 17, 1, 0, 1, 34, U16_LOW(report_desc_len), U16_HIGH(report_desc_len)>> \o
    <<7, 5, epout, 3, U16_LOW(epsize), U16_HIGH(epsize), ep_interval>> \o
    <<7, 5, epin, 3, U16_LOW(epsize), U16_HIGH(epsize), ep_interval>>

(***************************************************************************)
(* State.                                                                  *)
(***************************************************************************)
VARIABLES
    USBInstall,          \* role name -> whether the weak __USBInstall<role> is linked
    hid_report,          \* __hid_report (pointer)
    hid_report_len,      \* __hid_report_len
    hid2_report,         \* __hid2_report (pointer)
    hid2_report_len,     \* __hid2_report_len
    usbd_desc_cfg,       \* usbd_desc_cfg (pointer)
    heap,                \* allocation number -> bytes of the block
    ub,                  \* "none" | "ignored" | "fault": a write through NULL and its outcome
    tusb_inited,         \* tusb_inited()
    usb_mutex,           \* [inits, owner]: __usb_mutex; owner -1 = free, else core number
    usb_task_irq,        \* [claimed, handler, enabled, pending]: the user IRQ
    alarm,               \* [armed, tick]: recurring alarms armed, parity of firings
    pc,                  \* core -> "idle" | "locked" | "task" | "after"
    irq_pc,              \* "idle" | "locked" | "task" | "after": usb_irq on core 0
    irq_run,             \* [result, tasks, prev]: the current/last usb_irq run, its tud_task
                         \* calls, and how the run before it ended
    builds,              \* [hid, hid2, cfg, tusb]: builder and tusb_init calls made by __USBStart
    hid_set_report_callback_functions,       \* the two slots, NULL = empty
    hid_set_report_callback_functions_count, \* registrations stored
    invoked,             \* handler calls made by the last tud_hid_set_report_cb
    subscribed,          \* history: every fn passed to __USBSubscribeHIDSetReportCallback
    last                 \* [op, arg, ret]: the last operation called, its input (for a
                         \* builder: whether malloc succeeds) and its result (for a
                         \* builder: 1 when it called malloc, else 0)

descVars == <<hid_report, hid_report_len, hid2_report, hid2_report_len, usbd_desc_cfg, heap, ub>>
startVars == <<tusb_inited, usb_mutex, usb_task_irq, alarm, builds>>
runVars == <<pc, irq_pc, irq_run>>
routerVars == <<hid_set_report_callback_functions, hid_set_report_callback_functions_count, invoked, subscribed>>
vars == <<USBInstall, descVars, startVars, runVars, routerVars, last>>


(***************************************************************************)
(* Instance getters.                                                       *)
(***************************************************************************)
USBGetHIDInstanceIndexForSharedHID(inst) ==
    LET hasSerial == inst["Serial"]
    IN  IF hasSerial THEN 0 ELSE -1

USBGetHIDInstanceIndexForRawHID(inst) ==
    LET hasHID == inst["Keyboard"] \/ inst["Mouse"] \/ inst["Joystick"]
        hasHID2 == inst["SecondHID_RawHID"]
    IN  IF hasHID /\ hasHID2 THEN 1
        ELSE IF hasHID2 THEN 0
        ELSE -1

(***************************************************************************)
(* The descriptor buffers as one record, so that a builder is an operator  *)
(* from the buffers before the call to the buffers after it.               *)
(***************************************************************************)
DescState ==
    [hid_report |-> hid_report, hid_report_len |-> hid_report_len,
     hid2_report |-> hid2_report, hid2_report_len |-> hid2_report_len,
     usbd_desc_cfg |-> usbd_desc_cfg, heap |-> heap, ub |-> ub]

\* malloc(size): the pointer returned, NULL when the allocation fails
malloc(D, ok) == IF ok THEN Len(D.heap) + 1 ELSE NULL

GetDescHIDReport(D) == [ptr |-> D.hid_report, len |-> D.hid_report_len]

GetDescHID2Report(D) == [ptr |-> D.hid2_report, len |-> D.hid2_report_len]

(***************************************************************************)
(* __SetupDescHIDReport                                                    *)
(***************************************************************************)
\* the report_types[] entries filled in, in order; count = Len
report_types(inst) ==
    (IF inst["Keyboard"] THEN <<Report_Type_Keyboard>> ELSE <<>>) \o
    (IF inst["Mouse"] THEN <<Report_Type_Mouse>> ELSE <<>>) \o
    (IF inst["Joystick"] THEN <<Report_Type_Joystick>> ELSE <<>>) \o
    (IF inst["ConsumerControl"] THEN <<Report_Type_ConsumerControl>> ELSE <<>>)

\* the sizing loop's term for one entry (sizeof of the template with id 1)
SizeofReport(report_type) ==
    IF report_type = Report_Type_Keyboard THEN Len(TUD_HID_REPORT_DESC_KEYBOARD(1))
    ELSE IF report_type = Report_Type_Mouse THEN Len(TUD_HID_REPORT_DESC_MOUSE(1))
    ELSE IF report_type = Report_Type_Joystick THEN Len(TUD_HID_REPORT_DESC_GAMEPAD(1))
    ELSE IF report_type = Report_Type_ConsumerControl THEN Len(TUD_HID_REPORT_DESC_CONSUMER(1))
    ELSE 0

RECURSIVE ReportSize(_, _)
\* size after the first n rounds of the sizing loop
ReportSize(types, n) ==
    IF n = 0 THEN 0 ELSE ReportSize(types, n - 1) + SizeofReport(types[n])

\* variant: every report gets id 1
ReportIdOf_One(i) == U8(1)

\* uint8_t report_id = i + 1   (i is the 0-based loop index)
ReportIdOf(i) == U8(i + 1)

\* the desc[] the copy loop builds for one entry; the last branch tests the
\* enumerator Report_Type_ConsumerControl itself, which is nonzero
ReportDesc(report_type, report_id) ==
    IF report_type = Report_Type_Keyboard THEN TUD_HID_REPORT_DESC_KEYBOARD(report_id)
    ELSE IF report_type = Report_Type_Mouse THEN TUD_HID_REPORT_DESC_MOUSE(report_id)
    ELSE IF report_type = Report_Type_Joystick THEN TUD_HID_REPORT_DESC_GAMEPAD(report_id)
    ELSE IF Report_Type_ConsumerControl # 0 THEN TUD_HID_REPORT_DESC_CONSUMER(report_id)
    ELSE <<>>

RECURSIVE ReportFill(_, _, _)
\* [buf, offset] after the first n rounds of the copy loop
ReportFill(types, n, buf) ==
    IF n = 0 THEN [buf |-> buf, offset |-> 0]
    ELSE LET prev == ReportFill(types, n - 1, buf)
             desc == ReportDesc(types[n], ReportIdOf(n - 1))
         IN  [buf |-> Memcpy(prev.buf, prev.offset, desc),
              offset |-> prev.offset + Len(desc)]

SetupDescHIDReport(D, inst, ok) ==
    LET types == report_types(inst)
        count == Len(types)
        size == ReportSize(types, count)
        p == malloc(D, ok)
    IN  IF count = 0
        THEN [D EXCEPT !.hid_report = NULL, !.hid_report_len = 0]
        ELSE IF p # NULL
        THEN [D EXCEPT !.hid_report = p,
                       !.hid_report_len = size,
                       !.heap = Append(D.heap, ReportFill(types, count, Block(size)).buf)]
        ELSE [D EXCEPT !.hid_report = NULL]

(***************************************************************************)
(* __SetupDescHID2Report.  The malloc result is not tested: when it is     *)
(* NULL the memcpy writes through NULL, which is undefined behaviour.      *)
(* outcome picks what the build does there: "ignored" (the write is        *)
(* dropped and the function goes on) or "fault" (the core stops in the     *)
(* memcpy).                                                                *)
(***************************************************************************)
SetupDescHID2Report(D, inst, ok, outcome) ==
    LET desc_hid_report_genericHID == TUD_HID_REPORT_DESC_GENERIC_INOUT(64)
        size == Len(desc_hid_report_genericHID)
        p == malloc(D, ok)
    IN  IF inst["SecondHID_RawHID"]
        THEN IF p # NULL
             THEN [D EXCEPT !.hid2_report = p,
                            !.heap = Append(D.heap, Memcpy(Block(size), 0, desc_hid_report_genericHID)),
                            !.hid2_report_len = size]
             ELSE IF outcome = "fault"
             THEN [D EXCEPT !.hid2_report = NULL, !.ub = "fault"]
             ELSE [D EXCEPT !.hid2_report = NULL, !.ub = "ignored", !.hid2_report_len = size]
        ELSE [D EXCEPT !.hid2_report = NULL, !.hid2_report_len = 0]

(***************************************************************************)
(* __SetupUSBDescriptor                                                    *)
(***************************************************************************)
\* the interface numbering block: itf_* stay (uint8_t)-1 when the group is off
InterfaceLayout(hasSerial, hasHID, hasMSD, hasHID2) ==
    LET pos1 == IF hasSerial THEN 2 ELSE 0
        pos2 == IF hasHID THEN pos1 + 1 ELSE pos1
        pos3 == IF hasMSD THEN pos2 + 1 ELSE pos2
        pos4 == IF hasHID2 THEN pos3 + 1 ELSE pos3
    IN  [itf_cdc |-> IF hasSerial THEN 0 ELSE U8(-1),
         itf_hid |-> IF hasHID THEN U8(pos1) ELSE U8(-1),
         itf_msd |-> IF hasMSD THEN U8(pos2) ELSE U8(-1),
         itf_hid2 |-> IF hasHID2 THEN U8(pos3) ELSE U8(-1),
         interface_count |-> U8(pos4)]

\* the body run when usbd_desc_cfg is null
BuildUSBDescriptor(D, inst, ok) ==
    LET hasSerial == inst["Serial"]
        hasHID == inst["Keyboard"] \/ inst["Mouse"] \/ inst["Joystick"]
        hasMSD == inst["MassStorage"]
        hasHID2 == inst["SecondHID_RawHID"]
        itf == InterfaceLayout(hasSerial, hasHID, hasMSD, hasHID2)
        cdc_desc == TUD_CDC_DESCRIPTOR(itf.itf_cdc, USBD_STR_CDC, USBD_CDC_EP_CMD,
                        USBD_CDC_CMD_MAX_SIZE, USBD_CDC_EP_OUT, USBD_CDC_EP_IN,
                        USBD_CDC_IN_OUT_MAX_SIZE)
        hid_desc == TUD_HID_DESCRIPTOR(itf.itf_hid, 0, HID_ITF_PROTOCOL_NONE,
                        GetDescHIDReport(D).len, EPNUM_HID, CFG_TUD_HID_EP_BUFSIZE, 10)
        msd_desc == TUD_MSC_DESCRIPTOR(itf.itf_msd, 0, USBD_MSC_EPOUT, USBD_MSC_EPIN,
                        USBD_MSC_EPSIZE)
        hid2_desc == TUD_HID_INOUT_DESCRIPTOR(itf.itf_hid2, 0, HID_ITF_PROTOCOL_NONE,
                        GetDescHID2Report(D).len, EPNUM_HID2_EPOUT, EPNUM_HID2_EPIN,
                        CFG_TUD_HID_EP_BUFSIZE, 10)
        usbd_desc_len == TUD_CONFIG_DESC_LEN
                         + (IF hasSerial THEN TUD_CDC_DESC_LEN ELSE 0)
                         + (IF hasHID THEN TUD_HID_DESC_LEN ELSE 0)
                         + (IF hasMSD THEN TUD_MSC_DESC_LEN ELSE 0)
                         + (IF hasHID2 THEN TUD_HID_INOUT_DESC_LEN ELSE 0)
        tud_cfg_desc == TUD_CONFIG_DESCRIPTOR(1, itf.interface_count, USBD_STR_0,
                        usbd_desc_len, TUSB_DESC_CONFIG_ATT_REMOTE_WAKEUP, USBD_MAX_POWER_MA)
        p == malloc(D, ok)
        b0 == Bzero(Block(usbd_desc_len), usbd_desc_len)
        b1 == Memcpy(b0, 0, tud_cfg_desc)
        o1 == Len(tud_cfg_desc)
        b2 == IF hasSerial THEN Memcpy(b1, o1, cdc_desc) ELSE b1
        o2 == IF hasSerial THEN o1 + Len(cdc_desc) ELSE o1
        b3 == IF hasHID THEN Memcpy(b2, o2, hid_desc) ELSE b2
        o3 == IF hasHID THEN o2 + Len(hid_desc) ELSE o2
        b4 == IF hasMSD THEN Memcpy(b3, o3, msd_desc) ELSE b3
        o4 == IF hasMSD THEN o3 + Len(msd_desc) ELSE o3
        b5 == IF hasHID2 THEN Memcpy(b4, o4, hid2_desc) ELSE b4
    IN  IF p # NULL
        THEN [D EXCEPT !.usbd_desc_cfg = p, !.heap = Append(D.heap, b5)]
        ELSE [D EXCEPT !.usbd_desc_cfg = NULL]

\* variant: the presence check is missing, every call builds again
SetupUSBDescriptor_Rebuild(D, inst, ok) == BuildUSBDescriptor(D, inst, ok)

SetupUSBDescriptor(D, inst, ok) ==
    IF D.usbd_desc_cfg = NULL THEN BuildUSBDescriptor(D, inst, ok) ELSE D

\* uint8_t const *tud_hid_descriptor_report_cb(uint8_t instance)
tud_hid_descriptor_report_cb(D, instance) ==
    IF instance = 0 THEN GetDescHIDReport(D).ptr ELSE GetDescHID2Report(D).ptr

\* const uint8_t *tud_descriptor_configuration_cb(uint8_t index)
tud_descriptor_configuration_cb(D, index) == D.usbd_desc_cfg


(***************************************************************************)
(* Initial state: static storage is zero, the role flags are whatever the  *)
(* link produced.  A zeroed mutex_t has owner 0; mutex_init sets it to -1. *)
(***************************************************************************)
Init ==
    /\ USBInstall \in [RoleNames -> BOOLEAN]
    /\ hid_report = NULL
    /\ hid_report_len = 0
    /\ hid2_report = NULL
    /\ hid2_report_len = 0
    /\ usbd_desc_cfg = NULL
    /\ heap = <<>>
    /\ ub = "none"
    /\ tusb_inited = FALSE
    /\ usb_mutex = [inits |-> 0, owner |-> 0]
    /\ usb_task_irq = [claimed |-> 0, handler |-> "none", enabled |-> FALSE, pending |-> FALSE]
    /\ alarm = [armed |-> 0, tick |-> 0]
    /\ pc = [c \in Cores |-> "idle"]
    /\ irq_pc = "idle"
    /\ irq_run = [result |-> "none", tasks |-> 0, prev |-> "none"]
    /\ builds = [hid |-> 0, hid2 |-> 0, cfg |-> 0, tusb |-> 0]
    /\ hid_set_report_callback_functions = [i \in 1..CallbackSlots |-> NULL]
    /\ hid_set_report_callback_functions_count = 0
    /\ invoked = <<>>
    /\ subscribed = <<>>
    /\ last = [op |-> "none", arg |-> 0, ret |-> 0]

\* The dispatcher reads no role flag: the roles reach it only through what
\* __USBStart builds.  Its runs under fairness start from the builds in which
\* only these roles vary (the others are not linked).
VaryingRoles == {"Serial", "Keyboard", "SecondHID_RawHID"}

InitFewRoles ==
    /\ Init
    /\ \A r \in RoleNames \ VaryingRoles : ~USBInstall[r]

\* The callback router reads neither a role flag nor a descriptor: its runs
\* start from one build, a sketch with the serial port and a keyboard.
InitRouter ==
    /\ Init
    /\ USBInstall = [r \in RoleNames |-> r \in {"Serial", "Keyboard"}]

\* assign the descriptor buffers from a record
SetDesc(D) ==
    /\ hid_report' = D.hid_report
    /\ hid_report_len' = D.hid_report_len
    /\ hid2_report' = D.hid2_report
    /\ hid2_report_len' = D.hid2_report_len
    /\ usbd_desc_cfg' = D.usbd_desc_cfg
    /\ heap' = D.heap
    /\ ub' = D.ub

\* a core that faulted in a write through NULL runs nothing more
Running == ub # "fault"

(***************************************************************************)
(* Direct calls of the builders and getters (all have external linkage).   *)
(***************************************************************************)
CallSetupDescHIDReport ==
    /\ Running
    /\ Len(heap) < MaxAllocs
    /\ \E ok \in BOOLEAN :
          /\ SetDesc(SetupDescHIDReport(DescState, USBInstall, ok))
          /\ last' = [op |-> "SetupDescHIDReport", arg |-> ok,
                      ret |-> IF Len(report_types(USBInstall)) > 0 THEN 1 ELSE 0]
    /\ UNCHANGED <<USBInstall, startVars, runVars, routerVars>>

CallSetupDescHID2Report ==
    /\ Running
    /\ Len(heap) < MaxAllocs
    /\ \E ok \in BOOLEAN, outcome \in {"ignored", "fault"} :
          /\ SetDesc(SetupDescHID2Report(DescState, USBInstall, ok, outcome))
          /\ last' = [op |-> "SetupDescHID2Report", arg |-> ok,
                      ret |-> IF USBInstall["SecondHID_RawHID"] THEN 1 ELSE 0]
    /\ UNCHANGED <<USBInstall, startVars, runVars, routerVars>>

CallSetupUSBDescriptor ==
    /\ Running
    /\ Len(heap) < MaxAllocs
    /\ \E ok \in BOOLEAN :
          /\ SetDesc(SetupUSBDescriptor(DescState, USBInstall, ok))
          /\ last' = [op |-> "SetupUSBDescriptor", arg |-> ok,
                      ret |-> IF usbd_desc_cfg = NULL THEN 1 ELSE 0]
    /\ UNCHANGED <<USBInstall, startVars, runVars, routerVars>>

CallGetHIDInstanceIndexForSharedHID ==
    /\ Running
    /\ last' = [op |-> "USBGetHIDInstanceIndexForSharedHID", arg |-> 0,
                ret |-> USBGetHIDInstanceIndexForSharedHID(USBInstall)]
    /\ UNCHANGED <<USBInstall, descVars, startVars, runVars, routerVars>>

CallGetHIDInstanceIndexForRawHID ==
    /\ Running
    /\ last' = [op |-> "USBGetHIDInstanceIndexForRawHID", arg |-> 0,
                ret |-> USBGetHIDInstanceIndexForRawHID(USBInstall)]
    /\ UNCHANGED <<USBInstall, descVars, startVars, runVars, routerVars>>

Call_tud_hid_descriptor_report_cb ==
    /\ Running
    /\ \E instance \in 0..1 :
          last' = [op |-> "tud_hid_descriptor_report_cb", arg |-> instance,
                   ret |-> tud_hid_descriptor_report_cb(DescState, instance)]
    /\ UNCHANGED <<USBInstall, descVars, startVars, runVars, routerVars>>

NextDesc ==
    \/ CallSetupDescHIDReport
    \/ CallSetupDescHID2Report
    \/ CallSetupUSBDescriptor
    \/ CallGetHIDInstanceIndexForSharedHID
    \/ CallGetHIDInstanceIndexForRawHID
    \/ Call_tud_hid_descriptor_report_cb

SpecDesc == Init /\ [][NextDesc]_vars


(***************************************************************************)
(* The dispatcher: __USBStart, the recurring alarm, usb_irq and the        *)
(* application cores.                                                      *)
(*                                                                         *)
(* mutex_try_enter / mutex_exit are the SDK's: try_enter takes the mutex   *)
(* for the calling core when it has no owner and fails otherwise (also     *)
(* when the owner is the calling core); neither blocks.  usb_irq runs on   *)
(* core 0, the core whose __USBStart installed it, so its owner id is 0    *)
(* and core 0 runs no application code while the handler is active.        *)
(***************************************************************************)
mutex_try_enter(mtx, caller) ==
    IF mtx.owner = -1
    THEN [entered |-> TRUE, mtx |-> [mtx EXCEPT !.owner = caller]]
    ELSE [entered |-> FALSE, mtx |-> mtx]

mutex_exit(mtx) == [mtx EXCEPT !.owner = -1]

mutex_init(mtx) == [inits |-> mtx.inits + 1, owner |-> -1]

\* variant: the alarm callback returns 0, which cancels the alarm
timer_task_Once == [pending |-> TRUE, ret |-> 0]

\* timer_task: irq_set_pending(__usb_task_irq); return USB_TASK_INTERVAL
timer_task == [pending |-> TRUE, ret |-> USB_TASK_INTERVAL]

\* the part of __USBStart after the tusb_inited() test
StartBody ==
    \E ok1 \in BOOLEAN, ok2 \in BOOLEAN, ok3 \in BOOLEAN, outcome \in {"ignored", "fault"} :
        LET D1 == SetupDescHIDReport(DescState, USBInstall, ok1)
            D2 == SetupDescHID2Report(D1, USBInstall, ok2, outcome)
            D3 == SetupUSBDescriptor(D2, USBInstall, ok3)
        IN  IF D2.ub = "fault"
            THEN /\ SetDesc(D2)
                 /\ builds' = [builds EXCEPT !.hid = @ + 1, !.hid2 = @ + 1]
                 /\ UNCHANGED <<tusb_inited, usb_mutex, usb_task_irq, alarm>>
            ELSE /\ SetDesc(D3)
                 /\ builds' = [hid |-> builds.hid + 1, hid2 |-> builds.hid2 + 1,
                               cfg |-> builds.cfg + 1, tusb |-> builds.tusb + 1]
                 /\ usb_mutex' = mutex_init(usb_mutex)
                 /\ tusb_inited' = TRUE
                 /\ usb_task_irq' = [claimed |-> usb_task_irq.claimed + 1,
                                     handler |-> "usb_irq", enabled |-> TRUE,
                                     pending |-> usb_task_irq.pending]
                 /\ alarm' = [alarm EXCEPT !.armed = @ + 1]

\* variant: no tusb_inited() test, every call starts again
USBStart_NoCheck ==
    /\ Running
    /\ last' = [op |-> "USBStart", arg |-> tusb_inited, ret |-> 0]
    /\ StartBody
    /\ UNCHANGED <<USBInstall, runVars, routerVars>>

\* __USBStart, called on core 0 (by main(), and again by whoever wants to)
USBStart ==
    /\ Running
    /\ last' = [op |-> "USBStart", arg |-> tusb_inited, ret |-> 0]
    /\ IF tusb_inited
       THEN UNCHANGED <<descVars, startVars>>
       ELSE StartBody
    /\ UNCHANGED <<USBInstall, runVars, routerVars>>

\* the steps below are not calls of this file's API
Step == last' = [op |-> "step", arg |-> 0, ret |-> 0]

\* the alarm fires: timer_task runs and the alarm is re-armed when it
\* returns a positive interval
TimerTask ==
    /\ Running
    /\ alarm.armed > 0
    /\ usb_task_irq' = [usb_task_irq EXCEPT !.pending = timer_task.pending]
    /\ alarm' = [armed |-> IF timer_task.ret > 0 THEN alarm.armed ELSE alarm.armed - 1,
                 tick |-> 1 - alarm.tick]
    /\ Step
    /\ UNCHANGED <<USBInstall, descVars, tusb_inited, usb_mutex, builds, runVars, routerVars>>

\* variant: the result of mutex_try_enter is not tested, the handler goes on
\* to tud_task either way
IrqEnter_NoCheck ==
    /\ Running
    /\ usb_task_irq.enabled /\ usb_task_irq.pending /\ usb_task_irq.handler = "usb_irq"
    /\ irq_pc = "idle"
    /\ usb_task_irq' = [usb_task_irq EXCEPT !.pending = FALSE]
    /\ usb_mutex' = mutex_try_enter(usb_mutex, 0).mtx
    /\ irq_pc' = "locked"
    /\ irq_run' = [result |-> "entered", tasks |-> 0, prev |-> irq_run.result]
    /\ Step
    /\ UNCHANGED <<USBInstall, descVars, tusb_inited, alarm, builds, pc, routerVars>>

\* usb_irq is entered and does its mutex_try_enter; on failure the handler
\* returns at once
IrqEnter ==
    /\ Running
    /\ usb_task_irq.enabled /\ usb_task_irq.pending /\ usb_task_irq.handler = "usb_irq"
    /\ irq_pc = "idle"
    /\ usb_task_irq' = [usb_task_irq EXCEPT !.pending = FALSE]
    /\ LET r == mutex_try_enter(usb_mutex, 0)
       IN  /\ usb_mutex' = r.mtx
           /\ IF r.entered
              THEN /\ irq_pc' = "locked"
                   /\ irq_run' = [result |-> "entered", tasks |-> 0, prev |-> irq_run.result]
              ELSE /\ irq_pc' = "idle"
                   /\ irq_run' = [result |-> "skipped", tasks |-> 0, prev |-> irq_run.result]
    /\ Step
    /\ UNCHANGED <<USBInstall, descVars, tusb_inited, alarm, builds, pc, routerVars>>

\* usb_irq calls tud_task
IrqTaskBegin ==
    /\ Running
    /\ irq_pc = "locked"
    /\ irq_pc' = "task"
    /\ irq_run' = [irq_run EXCEPT !.tasks = @ + 1]
    /\ Step
    /\ UNCHANGED <<USBInstall, descVars, startVars, pc, routerVars>>

\* tud_task returns to usb_irq
IrqTaskEnd ==
    /\ Running
    /\ irq_pc = "task"
    /\ irq_pc' = "after"
    /\ Step
    /\ UNCHANGED <<USBInstall, descVars, startVars, pc, irq_run, routerVars>>

\* variant: usb_irq returns without mutex_exit
IrqExit_NoRelease ==
    /\ Running
    /\ irq_pc = "after"
    /\ irq_pc' = "idle"
    /\ irq_run' = [irq_run EXCEPT !.result = "ran"]
    /\ Step
    /\ UNCHANGED <<USBInstall, descVars, startVars, pc, routerVars>>

\* usb_irq does mutex_exit and returns
IrqExit ==
    /\ Running
    /\ irq_pc = "after"
    /\ irq_pc' = "idle"
    /\ irq_run' = [irq_run EXCEPT !.result = "ran"]
    /\ usb_mutex' = mutex_exit(usb_mutex)
    /\ Step
    /\ UNCHANGED <<USBInstall, descVars, tusb_inited, usb_task_irq, alarm, builds, pc, routerVars>>

\* application code on core c runs only while no handler is active on c
CoreRuns(c) == Running /\ tusb_inited /\ (c = 0 => irq_pc = "idle")

\* core c takes __usb_mutex (blocking enter: it gets it when it is free)
CoreAcquire(c) ==
    /\ CoreRuns(c)
    /\ pc[c] = "idle"
    /\ usb_mutex.owner = -1
    /\ usb_mutex' = [usb_mutex EXCEPT !.owner = c]
    /\ pc' = [pc EXCEPT ![c] = "locked"]
    /\ Step
    /\ UNCHANGED <<USBInstall, descVars, tusb_inited, usb_task_irq, alarm, builds, irq_pc, irq_run, routerVars>>

\* core c, holding the mutex, calls tud_task
CoreTaskBegin(c) ==
    /\ CoreRuns(c)
    /\ pc[c] = "locked"
    /\ pc' = [pc EXCEPT ![c] = "task"]
    /\ Step
    /\ UNCHANGED <<USBInstall, descVars, startVars, irq_pc, irq_run, routerVars>>

\* tud_task returns on core c
CoreTaskEnd(c) ==
    /\ CoreRuns(c)
    /\ pc[c] = "task"
    /\ pc' = [pc EXCEPT ![c] = "after"]
    /\ Step
    /\ UNCHANGED <<USBInstall, descVars, startVars, irq_pc, irq_run, routerVars>>

\* core c releases the mutex
CoreRelease(c) ==
    /\ CoreRuns(c)
    /\ pc[c] = "after"
    /\ pc' = [pc EXCEPT ![c] = "idle"]
    /\ usb_mutex' = mutex_exit(usb_mutex)
    /\ Step
    /\ UNCHANGED <<USBInstall, descVars, tusb_inited, usb_task_irq, alarm, builds, irq_pc, irq_run, routerVars>>

Next ==
    \/ USBStart
    \/ TimerTask
    \/ IrqEnter
    \/ IrqTaskBegin
    \/ IrqTaskEnd
    \/ IrqExit
    \/ \E c \in Cores : CoreAcquire(c)
    \/ \E c \in Cores : CoreTaskBegin(c)
    \/ \E c \in Cores : CoreTaskEnd(c)
    \/ \E c \in Cores : CoreRelease(c)

Spec == Init /\ [][Next]_vars

(***************************************************************************)
(* The SET_REPORT callback router.                                         *)
(***************************************************************************)
\* variant: a registration made when the slots are full replaces the last one
USBSubscribeHIDSetReportCallback_Overwrite(fns, count, fn) ==
    IF count < CallbackSlots
    THEN [fns |-> [fns EXCEPT ![count + 1] = fn], count |-> count + 1]
    ELSE [fns |-> [fns EXCEPT ![CallbackSlots] = fn], count |-> count]

\* __USBSubscribeHIDSetReportCallback(fn) on the slots and their count
USBSubscribeHIDSetReportCallback(fns, count, fn) ==
    IF count < CallbackSlots
    THEN [fns |-> [fns EXCEPT ![count + 1] = fn], count |-> count + 1]
    ELSE [fns |-> fns, count |-> count]

RECURSIVE SetReportCalls(_, _, _)
\* the calls made by the first n rounds of the loop of tud_hid_set_report_cb
SetReportCalls(fns, ev, n) ==
    IF n = 0 THEN <<>>
    ELSE SetReportCalls(fns, ev, n - 1) \o
         (IF fns[n] # NULL
          THEN <<[fn |-> fns[n], instance |-> ev.instance, report_id |-> ev.report_id,
                  report_type |-> ev.report_type, buffer |-> ev.buffer,
                  bufsize |-> ev.bufsize]>>
          ELSE <<>>)

tud_hid_set_report_cb(fns, ev) == SetReportCalls(fns, ev, CallbackSlots)

\* an application registers one of its handlers (a non-null function)
Subscribe ==
    /\ Running
    /\ Len(subscribed) < MaxSubscribe
    /\ \E fn \in 1..MaxHandlers :
          LET r == USBSubscribeHIDSetReportCallback(hid_set_report_callback_functions,
                        hid_set_report_callback_functions_count, fn)
          IN  /\ hid_set_report_callback_functions' = r.fns
              /\ hid_set_report_callback_functions_count' = r.count
              /\ subscribed' = Append(subscribed, fn)
              /\ last' = [op |-> "USBSubscribeHIDSetReportCallback", arg |-> fn, ret |-> 0]
    /\ UNCHANGED <<USBInstall, descVars, startVars, runVars, invoked>>

\* hid_report_type_t values the stack passes: OUT-endpoint data (0), output
\* report (2), feature report (3)
ReportTypes == {0, 2, 3}

\* the stack's buffer: none, or the address of its transfer buffer
Buffers == {NULL, 1}

\* the stack delivers a SET_REPORT request or OUT-endpoint data
SetReportEvent ==
    /\ Running
    /\ \E instance \in 0..MaxArg, report_id \in 0..MaxArg, report_type \in ReportTypes,
          buffer \in Buffers, bufsize \in 0..MaxArg :
          LET ev == [instance |-> instance, report_id |-> report_id,
                     report_type |-> report_type, buffer |-> buffer, bufsize |-> bufsize]
          IN  /\ invoked' = tud_hid_set_report_cb(hid_set_report_callback_functions, ev)
              /\ last' = [op |-> "tud_hid_set_report_cb", arg |-> ev, ret |-> 0]
    /\ UNCHANGED <<USBInstall, descVars, startVars, runVars,
                   hid_set_report_callback_functions,
                   hid_set_report_callback_functions_count, subscribed>>

NextRouter ==
    \/ Subscribe
    \/ SetReportEvent

SpecRouter == InitRouter /\ [][NextRouter]_vars

\* C7: the slots hold the first min(n, 2) of the n handlers registered, in
\* registration order, the count is min(n, 2), and a SET_REPORT event calls
\* each of them once, in that order, with the event's instance, report id,
\* report type, buffer and size; with no handler registered it calls nothing.
C7_CallbackRouter ==
    LET n == Len(subscribed)
        k == IF n < 2 THEN n ELSE 2
    IN  /\ hid_set_report_callback_functions_count = k
        /\ hid_set_report_callback_functions_count <= 2
        /\ \A i \in 1..CallbackSlots :
              hid_set_report_callback_functions[i] = (IF i <= k THEN subscribed[i] ELSE NULL)
        /\ last.op = "tud_hid_set_report_cb" =>
              /\ Len(invoked) = k
              /\ \A i \in 1..k :
                    invoked[i] = [fn |-> subscribed[i], instance |-> last.arg.instance,
                                  report_id |-> last.arg.report_id,
                                  report_type |-> last.arg.report_type,
                                  buffer |-> last.arg.buffer, bufsize |-> last.arg.bufsize]

\* three registrations were made, the third of a handler not among the first
\* two, and an event reached the two handlers kept
C7_Witness ==
    /\ Len(subscribed) = 3
    /\ subscribed[1] # subscribed[2]
    /\ subscribed[3] # subscribed[2]
    /\ last.op = "tud_hid_set_report_cb"
    /\ Len(invoked) = 2
    /\ invoked[2].bufsize = 1 /\ invoked[2].instance = 1
    /\ invoked[2].report_type = 2 /\ invoked[2].buffer # NULL

(***************************************************************************)
(* Scheduling.  The alarm pool fires an armed alarm, an enabled pending    *)
(* IRQ is taken, and a handler or a core that can run goes on running:     *)
(* weak fairness for the alarm and the handler's steps.  A core holding    *)
(* the mutex is only ever held up by the handler on core 0, which returns, *)
(* so its steps are strongly fair.  Nothing makes a core take the mutex,   *)
(* and nothing makes anyone call __USBStart.                               *)
(***************************************************************************)
Fairness ==
    /\ WF_vars(TimerTask)
    /\ WF_vars(IrqEnter)
    /\ WF_vars(IrqTaskBegin)
    /\ WF_vars(IrqTaskEnd)
    /\ WF_vars(IrqExit)
    /\ \A c \in Cores :
          /\ SF_vars(CoreTaskBegin(c))
          /\ SF_vars(CoreTaskEnd(c))
          /\ SF_vars(CoreRelease(c))

SpecLive == InitFewRoles /\ [][Next]_vars /\ Fairness

(***************************************************************************)
(* Properties of the dispatcher (checked under Spec and SpecLive).         *)
(***************************************************************************)
InTask == {c \in Cores : pc[c] = "task"}

Holders == {c \in Cores : pc[c] # "idle"}

\* C1: after __USBStart at most one context (core 0, core 1, usb_irq) is
\* executing tud_task, and usb_irq is not inside tud_task (nor anywhere
\* between its try_enter and its mutex_exit) while a core holds __usb_mutex.
C1_MutualExclusion ==
    tusb_inited =>
        /\ Cardinality(InTask) + (IF irq_pc = "task" THEN 1 ELSE 0) <= 1
        /\ irq_pc # "idle" => Holders = {}
        /\ Cardinality(Holders) <= 1

\* usb_irq was skipped and the holder that made it skip is inside tud_task
C1_Witness ==
    /\ tusb_inited
    /\ irq_run.result = "skipped"
    /\ pc[1] = "task"
    /\ usb_task_irq.pending

\* C2: a usb_irq run that finds __usb_mutex held returns in that same step,
\* without tud_task and leaving the owner as it was; a run that finds it
\* free takes it, and by the time it returns it has called tud_task exactly
\* once and released the mutex.
C2_SkipIfBusy ==
    [][/\ (usb_task_irq.pending /\ ~usb_task_irq'.pending) =>
            IF usb_mutex.owner # -1
            THEN /\ irq_pc' = "idle"
                 /\ usb_mutex' = usb_mutex
                 /\ irq_run'.result = "skipped" /\ irq_run'.tasks = 0
                 /\ pc' = pc
            ELSE /\ irq_pc' = "locked"
                 /\ usb_mutex'.owner = 0
                 /\ irq_run'.result = "entered" /\ irq_run'.tasks = 0
       /\ irq_pc' = "locked" => irq_run'.tasks = 0
       /\ irq_pc' \in {"task", "after"} => irq_run'.tasks = 1
       /\ (irq_pc = "after" /\ irq_pc' = "idle") =>
            /\ irq_run'.tasks = 1 /\ irq_run'.result = "ran"
            /\ usb_mutex'.owner = -1
       /\ (irq_pc = "locked" /\ irq_pc' # irq_pc) => irq_pc' = "task"
       /\ (irq_pc = "idle" /\ irq_pc' # irq_pc) => irq_pc' = "locked"]_vars

\* the run after a skipped run found the mutex free and has done its
\* tud_task and its mutex_exit
C2_Witness ==
    /\ irq_run.prev = "skipped"
    /\ irq_run.result = "ran"
    /\ irq_run.tasks = 1
    /\ usb_mutex.owner = -1

\* C5: a __USBStart call made when the stack is initialised changes nothing
\* (but the record of the call), and whenever the stack is initialised the
\* descriptors were built once, the mutex initialised once, tusb_init ran
\* once, one user IRQ is claimed with usb_irq as handler and one alarm is
\* armed.
C5_StartIdempotent ==
    [][/\ (last'.op = "USBStart" /\ tusb_inited) =>
            UNCHANGED <<USBInstall, descVars, startVars, runVars, routerVars>>
       /\ tusb_inited' =>
            /\ builds' = [hid |-> 1, hid2 |-> 1, cfg |-> 1, tusb |-> 1]
            /\ usb_mutex'.inits = 1
            /\ usb_task_irq'.claimed = 1
            /\ usb_task_irq'.handler = "usb_irq" /\ usb_task_irq'.enabled
            /\ alarm'.armed = 1]_vars

\* __USBStart was called again after usb_irq had already run tud_task
C5_Witness ==
    /\ last.op = "USBStart" /\ last.arg = TRUE
    /\ tusb_inited
    /\ irq_run.result = "ran"

\* C10 as stated: after __USBStart, usb_irq executes tud_task again and
\* again (it is never skipped forever).
C10_IrqTaskInfinitelyOften == [](tusb_inited => <>(irq_pc = "task"))

\* C10 amended: after __USBStart the alarm stays armed and fires forever,
\* a firing only marks the IRQ pending, every pending IRQ is served by a
\* usb_irq run, and tud_task is executed again and again by usb_irq or by
\* an inline holder.
C10_TaskNotStarved ==
    /\ [](tusb_inited => alarm.armed = 1)
    /\ [](tusb_inited => (<>(alarm.tick = 0) /\ <>(alarm.tick = 1)))
    /\ [][alarm'.tick # alarm.tick =>
            /\ usb_task_irq'.pending
            /\ irq_pc' = irq_pc /\ pc' = pc /\ irq_run' = irq_run
            /\ usb_mutex' = usb_mutex]_vars
    /\ [](usb_task_irq.pending => <>(~usb_task_irq.pending))
    /\ [](tusb_inited => <>(irq_pc = "task" \/ InTask # {}))

\* usb_irq has been skipped twice in a row while core 1 drives tud_task
C10_Witness ==
    /\ tusb_inited
    /\ irq_run.result = "skipped" /\ irq_run.prev = "skipped"
    /\ pc[1] = "task"
    /\ alarm.tick = 0

(***************************************************************************)
(* Properties of the descriptor builders (checked under SpecDesc).         *)
(***************************************************************************)
SimpleHIDRoles == <<"Keyboard", "Mouse", "Joystick", "ConsumerControl">>

AnySimpleHID(inst) == \E i \in 1..Len(SimpleHIDRoles) : inst[SimpleHIDRoles[i]]

EnabledSimpleHIDRoles(inst) == SelectSeq(SimpleHIDRoles, LAMBDA r : inst[r])

TemplateOf(role, id) ==
    CASE role = "Keyboard" -> TUD_HID_REPORT_DESC_KEYBOARD(id)
      [] role = "Mouse" -> TUD_HID_REPORT_DESC_MOUSE(id)
      [] role = "Joystick" -> TUD_HID_REPORT_DESC_GAMEPAD(id)
      [] role = "ConsumerControl" -> TUD_HID_REPORT_DESC_CONSUMER(id)

RECURSIVE ConcatTemplates(_, _)
\* templates of the first k roles of en, the i-th stamped with id i
ConcatTemplates(en, k) ==
    IF k = 0 THEN <<>> ELSE ConcatTemplates(en, k - 1) \o TemplateOf(en[k], k)

RECURSIVE SumTemplateSizes(_, _)
SumTemplateSizes(en, k) ==
    IF k = 0 THEN 0 ELSE SumTemplateSizes(en, k - 1) + Len(TemplateOf(en[k], 1))

\* the last operation was a builder whose malloc returned NULL
AllocFailedIn(op) == last.op = op /\ last.ret = 1 /\ last.arg = FALSE

\* C3: after __SetupDescHIDReport with the allocation succeeding, the HID
\* report buffer is the concatenation, in the order keyboard, mouse,
\* joystick, consumer-control, of the templates of the enabled roles, the
\* i-th enabled role stamped with report id i; __hid_report_len is the sum
\* of the enabled templates' sizes and every allocated byte is written; with
\* no role enabled the pointer is null and the length 0.
C3_HIDReportConcat ==
    (last.op = "SetupDescHIDReport" /\ last.arg = TRUE) =>
        LET en == EnabledSimpleHIDRoles(USBInstall)
            k == Len(en)
        IN  IF k = 0
            THEN hid_report = NULL /\ hid_report_len = 0
            ELSE /\ hid_report # NULL
                 /\ heap[hid_report] = ConcatTemplates(en, k)
                 /\ hid_report_len = SumTemplateSizes(en, k)
                 /\ Len(heap[hid_report]) = hid_report_len
                 /\ \A i \in 1..Len(heap[hid_report]) : heap[hid_report][i] # UNINIT

C3_Witness ==
    /\ last.op = "SetupDescHIDReport" /\ last.arg = TRUE
    /\ \A i \in 1..4 : USBInstall[SimpleHIDRoles[i]]
    /\ hid_report # NULL
    /\ Len(heap[hid_report]) = hid_report_len
    /\ heap[hid_report][hid_report_len - 17] = 4

RECURSIVE InterfacesOf(_, _)
\* the interface descriptors met when walking the descriptor chain of B from
\* byte pos on: [num, class, eps]; a zero bLength or a descriptor running
\* past the end of B yields the entry "broken"
InterfacesOf(B, pos) ==
    IF pos > Len(B) THEN <<>>
    ELSE IF B[pos] <= 0 \/ pos + B[pos] - 1 > Len(B) THEN <<"broken">>
    ELSE (IF B[pos + 1] = 4
          THEN <<[num |-> B[pos + 2], class |-> B[pos + 5], eps |-> B[pos + 4]]>>
          ELSE <<>>) \o InterfacesOf(B, pos + B[pos])

\* what the layout is to be when the groups present are these
ExpectedInterfaces(serial, hid, msd, hidraw) ==
    LET n1 == IF serial THEN 2 ELSE 0
        n2 == n1 + IF hid THEN 1 ELSE 0
        n3 == n2 + IF msd THEN 1 ELSE 0
    IN  (IF serial THEN <<[num |-> 0, class |-> 2, eps |-> 1],
                          [num |-> 1, class |-> 10, eps |-> 2]>> ELSE <<>>) \o
        (IF hid THEN <<[num |-> n1, class |-> 3, eps |-> 1]>> ELSE <<>>) \o
        (IF msd THEN <<[num |-> n2, class |-> 8, eps |-> 2]>> ELSE <<>>) \o
        (IF hidraw THEN <<[num |-> n3, class |-> 3, eps |-> 2]>> ELSE <<>>)

ConfigLayoutHolds(B, serial, hid, msd, hidraw) ==
    LET total == TUD_CONFIG_DESC_LEN
                 + (IF serial THEN TUD_CDC_DESC_LEN ELSE 0)
                 + (IF hid THEN TUD_HID_DESC_LEN ELSE 0)
                 + (IF msd THEN TUD_MSC_DESC_LEN ELSE 0)
                 + (IF hidraw THEN TUD_HID_INOUT_DESC_LEN ELSE 0)
        itfs == ExpectedInterfaces(serial, hid, msd, hidraw)
    IN  /\ Len(B) = total
        /\ B[3] + 256 * B[4] = total
        /\ B[1] = TUD_CONFIG_DESC_LEN /\ B[2] = 2
        /\ InterfacesOf(B, 1) = itfs
        /\ B[5] = Len(itfs)

\* C4: for every subset of enabled roles the configuration descriptor built
\* by __SetupUSBDescriptor has total length header + the sub-descriptor sizes
\* of the enabled groups (serial; HID = any of keyboard, mouse, joystick,
\* consumer-control; mass storage; raw-HID-2), the sub-descriptors follow the
\* header without gaps in the order serial, HID, mass storage, raw-HID-2,
\* the interface numbers are 0, 1, 2, ... in that order (serial takes two)
\* and the declared interface count is the number of interfaces.
C4_ConfigLayout ==
    usbd_desc_cfg # NULL =>
        ConfigLayoutHolds(heap[usbd_desc_cfg], USBInstall["Serial"],
                          AnySimpleHID(USBInstall), USBInstall["MassStorage"],
                          USBInstall["SecondHID_RawHID"])

\* the same layout with the HID group taken as present only when keyboard,
\* mouse or joystick is enabled
ConfigLayoutKMJ ==
    usbd_desc_cfg # NULL =>
        ConfigLayoutHolds(heap[usbd_desc_cfg], USBInstall["Serial"],
                          USBInstall["Keyboard"] \/ USBInstall["Mouse"] \/ USBInstall["Joystick"],
                          USBInstall["MassStorage"], USBInstall["SecondHID_RawHID"])

\* the report length the HID interface of B carries (B has a HID interface)
EmbeddedHIDReportLen(B, inst) ==
    LET off == TUD_CONFIG_DESC_LEN + (IF inst["Serial"] THEN TUD_CDC_DESC_LEN ELSE 0)
    IN  B[off + 17] + 256 * B[off + 18]

\* C6: once usbd_desc_cfg is non-null no step (a further __SetupUSBDescriptor
\* call included, whatever the HID report lengths have become) changes the
\* pointer or any byte of the buffer.
C6_ConfigBuildIdempotent ==
    [][usbd_desc_cfg # NULL =>
          /\ usbd_desc_cfg' = usbd_desc_cfg
          /\ heap'[usbd_desc_cfg] = heap[usbd_desc_cfg]]_vars

\* a repeated call (the buffer is not the newest block, so this call built
\* nothing) made when __hid_report_len differs from the length embedded
C6_Witness ==
    /\ last.op = "SetupUSBDescriptor" /\ last.arg = TRUE /\ last.ret = 0
    /\ usbd_desc_cfg # NULL
    /\ usbd_desc_cfg < Len(heap)
    /\ USBInstall["Keyboard"]
    /\ hid_report_len # 0
    /\ EmbeddedHIDReportLen(heap[usbd_desc_cfg], USBInstall) = 0

\* C8: when the allocation of a descriptor buffer fails, the build leaves
\* that buffer's pointer null and its length 0 and writes nothing through
\* the null pointer.
C8_AllocFailureSafe ==
    /\ ub = "none"
    /\ AllocFailedIn("SetupDescHIDReport") => hid_report = NULL /\ hid_report_len = 0
    /\ AllocFailedIn("SetupDescHID2Report") => hid2_report = NULL /\ hid2_report_len = 0
    /\ AllocFailedIn("SetupUSBDescriptor") => usbd_desc_cfg = NULL

\* the shared half of C9
SharedIndexClaim ==
    (last.op = "USBGetHIDInstanceIndexForSharedHID"
     /\ (USBInstall["Serial"] \/ AnySimpleHID(USBInstall))) => last.ret = 0

\* the raw half of C9
RawIndexClaim ==
    last.op = "USBGetHIDInstanceIndexForRawHID" =>
        last.ret = (IF ~USBInstall["SecondHID_RawHID"] THEN -1
                    ELSE IF AnySimpleHID(USBInstall) THEN 1 ELSE 0)

\* C9: __USBGetHIDInstanceIndexForSharedHID returns 0 whenever serial or any
\* simple-HID role is enabled; __USBGetHIDInstanceIndexForRawHID returns 1
\* when the shared simple-HID group and raw-HID-2 are both present, 0 when
\* only raw-HID-2 is, and -1 when raw-HID-2 is not enabled.
C9_InstanceIndex == SharedIndexClaim /\ RawIndexClaim

RECURSIVE SharedHIDFrom(_, _)
\* some descriptor of B at or after pos is an interface descriptor of class
\* HID with one endpoint (the raw-HID-2 interface has two)
SharedHIDFrom(B, pos) ==
    IF pos > Len(B) THEN FALSE
    ELSE IF B[pos] <= 0 \/ pos + B[pos] - 1 > Len(B) THEN FALSE
    ELSE \/ (B[pos + 1] = 4 /\ B[pos + 5] = 3 /\ B[pos + 4] = 1)
         \/ SharedHIDFrom(B, pos + B[pos])

\* the configuration descriptor B carries the shared HID interface
HasSharedHIDInterface(B) == SharedHIDFrom(B, 1)

\* the shared HID report buffer holds something
SharedReportNonEmpty == hid_report # NULL /\ hid_report_len > 0

\* C11: for every subset of enabled roles, after __USBStart the
\* configuration descriptor contains the shared HID interface if and only if
\* the shared HID report buffer is non-empty (some role among keyboard,
\* mouse, joystick, consumer-control is enabled), and the report length
\* embedded in that HID interface equals __hid_report_len; in particular
\* enabling consumer-control alone yields a HID interface.
C11_ReportInterfaceAgree ==
    (tusb_inited /\ usbd_desc_cfg # NULL) =>
        /\ HasSharedHIDInterface(heap[usbd_desc_cfg]) <=> SharedReportNonEmpty
        /\ SharedReportNonEmpty <=> AnySimpleHID(USBInstall)
        /\ HasSharedHIDInterface(heap[usbd_desc_cfg]) =>
              EmbeddedHIDReportLen(heap[usbd_desc_cfg], USBInstall) = hid_report_len

\* what the code does keep after __USBStart: the interface is there exactly
\* when keyboard, mouse or joystick is enabled, and the length it embeds is
\* __hid_report_len
ReportInterfaceKMJ ==
    (tusb_inited /\ usbd_desc_cfg # NULL) =>
        /\ HasSharedHIDInterface(heap[usbd_desc_cfg]) <=>
              (USBInstall["Keyboard"] \/ USBInstall["Mouse"] \/ USBInstall["Joystick"])
        /\ HasSharedHIDInterface(heap[usbd_desc_cfg]) =>
              EmbeddedHIDReportLen(heap[usbd_desc_cfg], USBInstall) = hid_report_len

\* __USBStart ran with consumer-control as the only simple-HID role, every
\* allocation succeeded: the report buffer is filled, the interface absent
ConsumerOnlyNoInterface ==
    /\ tusb_inited /\ usbd_desc_cfg # NULL
    /\ USBInstall["ConsumerControl"]
    /\ SharedReportNonEmpty
    /\ ~HasSharedHIDInterface(heap[usbd_desc_cfg])

\* the shared HID interface exists in the configuration descriptor built
SharedInterfaceExists ==
    usbd_desc_cfg # NULL /\ HasSharedHIDInterface(heap[usbd_desc_cfg])

\* the first part of C12: the instance the raw-HID getter names is answered
\* with the raw-HID-2 report buffer
RawRoutingClaim ==
    (/\ last.op = "tud_hid_descriptor_report_cb"
     /\ USBInstall["SecondHID_RawHID"]
     /\ last.arg = USBGetHIDInstanceIndexForRawHID(USBInstall)) =>
        last.ret = hid2_report

\* the second part of C12: instance 0 is answered with the shared buffer
\* whenever the shared interface exists
SharedRoutingClaim ==
    (/\ last.op = "tud_hid_descriptor_report_cb"
     /\ SharedInterfaceExists
     /\ last.arg = 0) =>
        last.ret = hid_report

\* the third part of C12: an instance that belongs to one group only is never
\* answered with the other group's (allocated) buffer
NoCrossRoutingClaim ==
    last.op = "tud_hid_descriptor_report_cb" =>
        /\ (/\ USBInstall["SecondHID_RawHID"]
            /\ last.arg = USBGetHIDInstanceIndexForRawHID(USBInstall)
            /\ hid_report # NULL
            /\ hid_report # hid2_report) => last.ret # hid_report
        /\ (/\ SharedInterfaceExists
            /\ last.arg = 0
            /\ hid2_report # NULL
            /\ hid_report # hid2_report) => last.ret # hid2_report

\* C12: for every subset of enabled roles with raw-HID-2 enabled,
\* tud_hid_descriptor_report_cb called with the instance returned by
\* __USBGetHIDInstanceIndexForRawHID returns the raw-HID-2 report buffer, and
\* whenever the shared HID interface exists tud_hid_descriptor_report_cb(0)
\* returns the shared HID report buffer; the callback never returns one
\* group's buffer for the other group's instance.
C12_ReportRouting == RawRoutingClaim /\ SharedRoutingClaim /\ NoCrossRoutingClaim

\* raw-HID-2 is the only HID group, its buffer is built, the callback was
\* asked for the instance the getter names (0) and answered with the shared
\* pointer
RawOnlyMisrouted ==
    /\ last.op = "tud_hid_descriptor_report_cb"
    /\ USBInstall["SecondHID_RawHID"]
    /\ ~AnySimpleHID(USBInstall)
    /\ hid2_report # NULL
    /\ last.arg = USBGetHIDInstanceIndexForRawHID(USBInstall)
    /\ last.ret # hid2_report

=============================================================================
